---- MODULE Spec2Model ----
(***************************************************************************)
(* A model of fabricator-assemble (src/index.js): the name resolver, the   *)
(* hierarchy classifier, the field namespacer, the material registry, the  *)
(* context builder and the bundler.                                        *)
(*                                                                         *)
(* Strings that the code inspects character by character (file and         *)
(* directory names, ids, field names) are sequences of one-character       *)
(* strings, so that the regular expressions of the code are computed and   *)
(* not assumed.  A path is a sequence of such names, one per segment.      *)
(***************************************************************************)
EXTENDS Integers, Sequences, FiniteSets, TLC

(***************************************************************************)
(* Bounds of the model.                                                    *)
(***************************************************************************)
MaxNameLen == 4
MaxTokens == 2
MaxFiles == 2

(***************************************************************************)
(* Characters and small string helpers.                                    *)
(***************************************************************************)
Digits == {"0", "1", "2", "3", "4", "5", "6", "7", "8", "9"}

IsDigit(c) == c \in Digits

Spaces == {" ", "\t", "\n", "\r"}

IsSpace(c) == c \in Spaces

\* the sequence s from position i (1-based) to its end
From(s, i) == IF i > Len(s) THEN <<>> ELSE SubSeq(s, i, Len(s))

\* does the string t occur in s at position i
OccursAt(s, t, i) ==
    /\ i >= 1
    /\ i + Len(t) - 1 <= Len(s)
    /\ SubSeq(s, i, i + Len(t) - 1) = t

EndsWith(s, t) == Len(t) <= Len(s) /\ OccursAt(s, t, Len(s) - Len(t) + 1)

\* length of the longest prefix of s all of whose characters are in the class
RunLen(s, class) ==
    CHOOSE k \in 0..Len(s) :
        /\ \A j \in 1..k : s[j] \in class
        /\ k < Len(s) => s[k + 1] \notin class

\* String.prototype.trim
Trim(s) ==
    LET lead == RunLen(s, Spaces)
        rest == From(s, lead + 1)
        n    == Len(rest)
        keep == IF n = 0 THEN 0
                ELSE CHOOSE k \in 1..n :
                        /\ ~IsSpace(rest[k])
                        /\ \A j \in (k + 1)..n : IsSpace(rest[j])
    IN  SubSeq(rest, 1, keep)

\* String.prototype.replace(/\s/g, '-')
SpacesToDashes(s) == [i \in 1..Len(s) |-> IF IsSpace(s[i]) THEN "-" ELSE s[i]]

\* all strings over the alphabet of length at most n
StringsUpTo(alphabet, n) == UNION {[1..k -> alphabet] : k \in 0..n}

(***************************************************************************)
(* Name resolver: filterName, getName, isExcluded (index.js 176-207).      *)
(***************************************************************************)
\* the character class [0-9|\.\-] of filterName's expression
OrderChars == Digits \cup {"|", ".", "-"}

\* name.replace(/(^[0-9|\.\-]+|)(__|)/, ''): the expression always matches at
\* position 0, the longest leading run of the class and then "__" if it follows
StripOrderPrefix(name) ==
    LET run   == RunLen(name, OrderChars)
        after == From(name, run + 1)
    IN  IF OccursAt(after, <<"_", "_">>, 1) THEN From(after, 3) ELSE after

filterName(name, preserveNumbers) ==
    SpacesToDashes(Trim(IF preserveNumbers THEN name ELSE StripOrderPrefix(name)))

\* path.basename(p): the last segment of the path
Basename(path) == IF Len(path) = 0 THEN <<>> ELSE path[Len(path)]

\* path.extname(name): from the last "." to the end; empty when there is no
\* "." or when the only "." is the first character
Extname(name) ==
    LET dots == {i \in 1..Len(name) : name[i] = "."}
        last == IF dots = {} THEN 0 ELSE CHOOSE i \in dots : \A j \in dots : j <= i
    IN  IF last <= 1 THEN <<>> ELSE From(name, last)

\* path.basename(p, ext): the suffix is dropped unless it is the whole name
BasenameExt(path, ext) ==
    LET base == Basename(path)
    IN  IF Len(ext) > 0 /\ EndsWith(base, ext) /\ Len(base) > Len(ext)
        THEN SubSeq(base, 1, Len(base) - Len(ext))
        ELSE base

getName(filePath, preserveNumbers) ==
    filterName(BasenameExt(filePath, Extname(Basename(filePath))), preserveNumbers)

\* the character class [0-9\.] of isExcluded's expression
DigitsAndDot == Digits \cup {"."}

\* name.match(/(^[0-9\.]+|)(__)/): a search over every start position; at a
\* position the first alternative needs the start of the string and a run of
\* the class, the second alternative is empty, and "__" must follow
MatchesHidden(name) ==
    \E i \in 1..Len(name) :
        \/ /\ i = 1
           /\ \E k \in 1..RunLen(name, DigitsAndDot) : OccursAt(name, <<"_", "_">>, k + 1)
        \/ OccursAt(name, <<"_", "_">>, i)

isExcluded(filePath) == MatchesHidden(Basename(filePath))

(***************************************************************************)
(* State.                                                                  *)
(*   tree         the source tree: the material files and the doc files    *)
(*   assets       the compiled assets that exist below <dest>/assets       *)
(*   userOptions  the options the caller passes to the exported function   *)
(*   options      the merged options (index.js 122)                        *)
(*   assembly     the assembly data storage (index.js 129-165)             *)
(*   partials     the fragments registered with Handlebars.registerPartial *)
(*   written      the files written by the current run, by path            *)
(*   pc           the stage of the run that executes next                  *)
(*   files, dirs  the local variables of parseMaterials (index.js 313-325) *)
(*   idx          the position of the forEach loop that is running         *)
(*   handled      what handleError did with the error of the current run   *)
(*   history      one record for every run that has returned               *)
(*   call         the function applied to drawn inputs, with its arguments *)
(*   ret          the value that call returned                             *)
(***************************************************************************)
VARIABLES tree, assets, userOptions, options, assembly, partials, written,
          pc, files, dirs, idx, handled, history, call, ret

vars == <<tree, assets, userOptions, options, assembly, partials, written,
          pc, files, dirs, idx, handled, history, call, ret>>

\* the variables of a run
runVars == <<tree, assets, userOptions, written, pc, files, dirs, idx, handled, history>>

Null == [none |-> TRUE]

\* an object without keys, {}
EmptyObject == [k \in {} |-> Null]

\* the keys option of the defaults (index.js 69-73)
KeyMaterials == <<"m", "a", "t", "e", "r", "i", "a", "l", "s">>
KeyViews == <<"v", "i", "e", "w", "s">>
KeyDocs == <<"d", "o", "c", "s">>

Dist == <<"d", "i", "s", "t">>
DefaultLayout == <<"d", "e", "f", "a", "u", "l", "t">>

\* the defaults (index.js 22-115) that the model reads
defaults ==
    [ layout |-> DefaultLayout,
      keys |-> [materials |-> KeyMaterials, views |-> KeyViews, docs |-> KeyDocs],
      dest |-> Dist,
      onError |-> FALSE,
      logErrors |-> FALSE,
      encloseInComments |-> FALSE,
      wrapAndHardResetMaterials |-> FALSE ]

\* the module-level assembly object before any run
assemblyInit ==
    [ layouts |-> EmptyObject,
      data |-> EmptyObject,
      materials |-> EmptyObject,
      materialData |-> EmptyObject,
      views |-> EmptyObject,
      docs |-> EmptyObject ]

(***************************************************************************)
(* Context builder: buildContext (index.js 264-278).                       *)
(***************************************************************************)
\* _.assign of two sources: the later source wins on every key it defines
Assign(a, b) ==
    [k \in (DOMAIN a) \cup (DOMAIN b) |-> IF k \in DOMAIN b THEN b[k] ELSE a[k]]

\* _.assign({}, s1, ..., sn) for a sequence of sources
RECURSIVE AssignAll(_)
AssignAll(sources) ==
    IF Len(sources) = 0 THEN EmptyObject
    ELSE Assign(AssignAll(SubSeq(sources, 1, Len(sources) - 1)), sources[Len(sources)])

\* an object with the one key k
Single(k, v) == [x \in {k} |-> v]

\* buildContext with the hash moved to the front of the sources
buildContextHashFirst(data, hash) ==
    AssignAll(<<hash, data, assembly.data, assembly.materialData,
                Single(options.keys.materials, assembly.materials),
                Single(options.keys.views, assembly.views),
                Single(options.keys.docs, assembly.docs)>>)

\* buildContext with the page data moved behind the collected sources
buildContextDataLate(data, hash) ==
    AssignAll(<<assembly.data, assembly.materialData,
                Single(options.keys.materials, assembly.materials),
                Single(options.keys.views, assembly.views),
                Single(options.keys.docs, assembly.docs),
                data, hash>>)

buildContext(data, hash) ==
    LET materials == Single(options.keys.materials, assembly.materials)
        views     == Single(options.keys.views, assembly.views)
        docs      == Single(options.keys.docs, assembly.docs)
    IN  AssignAll(<<data, assembly.data, assembly.materialData,
                    materials, views, docs, hash>>)

(***************************************************************************)
(* Front matter and template text.                                         *)
(*                                                                         *)
(* Front-matter data is an ordered object: a sequence of <<key, value>>    *)
(* pairs in the order of the file, without a repeated key.  A value is a   *)
(* record of its JavaScript type and its printed form.                     *)
(*                                                                         *)
(* Template text is a sequence of tokens: a text token, or a mustache      *)
(* token "{{" inner "}}" whose inner characters are kept one by one.  A    *)
(* text token holds no brace, so an expression that starts at "{{" and     *)
(* ends at "}}" and has no brace in between matches whole mustache tokens. *)
(***************************************************************************)
Value(type, repr) == [type |-> type, repr |-> repr]

Undefined == Value("undefined", "")

Keys(data) == {data[i][1] : i \in 1..Len(data)}

Has(data, k) == k \in Keys(data)

Get(data, k) ==
    IF Has(data, k)
    THEN data[CHOOSE i \in 1..Len(data) : data[i][1] = k][2]
    ELSE Undefined

\* _.omit(data, key)
Omit(data, key) ==
    LET Keep(pair) == pair[1] # key
    IN  SelectSeq(data, Keep)

PropNotes == <<"n", "o", "t", "e", "s">>
PropBundle == <<"b", "u", "n", "d", "l", "e">>
PropExtension == <<"e", "x", "t", "e", "n", "s", "i", "o", "n">>

Text(chars) == [kind |-> "text", inner |-> chars]

Mustache(chars) == [kind |-> "mustache", inner |-> chars]

\* id.replace(/\./g, '-')
DotsToDashes(id) == [i \in 1..Len(id) |-> IF id[i] = "." THEN "-" ELSE id[i]]

\* p2.replace(/\s/g, '')
RECURSIVE RemoveSpaces(_)
RemoveSpaces(s) ==
    IF Len(s) = 0 THEN <<>>
    ELSE (IF IsSpace(s[1]) THEN <<>> ELSE <<s[1]>>) \o RemoveSpaces(Tail(s))

(***************************************************************************)
(* Field namespacer (index.js 402-413).                                    *)
(***************************************************************************)
\* does inner match [#/]? \s? key+? \s? as a whole, the sigil taking
\* sigil characters, the spaces lead and trail characters, and the last
\* character of the key occurring rep times
FieldMatchAs(inner, key, sigil, lead, rep, trail) ==
    LET n == Len(key)
    IN  /\ n >= 1
        /\ Len(inner) = sigil + lead + (n - 1) + rep + trail
        /\ sigil = 1 => inner[1] \in {"#", "/"}
        /\ lead = 1 => IsSpace(inner[sigil + 1])
        /\ \A j \in 1..(n - 1) : inner[sigil + lead + j] = key[j]
        /\ \A j \in 1..rep : inner[sigil + lead + (n - 1) + j] = key[n]
        /\ trail = 1 => IsSpace(inner[Len(inner)])

\* new RegExp('(\\{\\{[#\/]?)(\\s?' + key + '+?\\s?)(\\}\\})'): the "+?"
\* binds to the last character of the key
FieldMatchSigil(inner, key, sigil) ==
    \E lead \in {0, 1}, rep \in 1..Len(inner), trail \in {0, 1} :
        FieldMatchAs(inner, key, sigil, lead, rep, trail)

FieldMatches(inner, key) ==
    FieldMatchSigil(inner, key, 1) \/ FieldMatchSigil(inner, key, 0)

\* FieldRewrite with the id used as it is, dots included
FieldRewriteDotted(inner, key, id) ==
    LET sigil == IF FieldMatchSigil(inner, key, 1) THEN 1 ELSE 0
    IN  SubSeq(inner, 1, sigil) \o id \o <<".">>
            \o RemoveSpaces(From(inner, sigil + 1))

\* the replacement: p1 + id.replace(/\./g, '-') + '.' + p2.replace(/\s/g, '') + p3
\* (the optional sigil is greedy: it is taken when the rest still matches)
FieldRewrite(inner, key, id) ==
    LET sigil == IF FieldMatchSigil(inner, key, 1) THEN 1 ELSE 0
    IN  SubSeq(inner, 1, sigil) \o DotsToDashes(id) \o <<".">>
            \o RemoveSpaces(From(inner, sigil + 1))

\* content.replace(regex, ...) for the expression of one key
ReplaceField(content, key, id) ==
    [i \in 1..Len(content) |->
        IF content[i].kind = "mustache" /\ FieldMatches(content[i].inner, key)
        THEN Mustache(FieldRewrite(content[i].inner, key, id))
        ELSE content[i]]

\* _.forEach(localData, ...): one replace per key, in the order of the keys
RECURSIVE NamespaceFields(_, _, _)
NamespaceFields(content, localData, id) ==
    IF Len(localData) = 0 THEN content
    ELSE NamespaceFields(ReplaceField(content, localData[1][1], id), Tail(localData), id)

\* a text token that is nothing but a blank line
IsBlankLine(tok) ==
    /\ tok.kind = "text"
    /\ Len(tok.inner) > 0
    /\ \A i \in 1..Len(tok.inner) : IsSpace(tok.inner[i])
    /\ tok.inner[Len(tok.inner)] \in {"\n", "\r"}

\* content.replace(/^(\s*(\r?\n|\r))+|(\s*(\r?\n|\r))+$/g, '') (index.js 373)
TrimBlankLines(content) ==
    LET n     == Len(content)
        lead  == CHOOSE k \in 0..n :
                    /\ \A j \in 1..k : IsBlankLine(content[j])
                    /\ k < n => ~IsBlankLine(content[k + 1])
        rest  == From(content, lead + 1)
        m     == Len(rest)
        keep  == CHOOSE k \in 0..m :
                    /\ \A j \in (k + 1)..m : IsBlankLine(rest[j])
                    /\ k > 0 => ~IsBlankLine(rest[k])
    IN  SubSeq(rest, 1, keep)

\* the wrappers of index.js 415-421
HardReset(content) ==
    <<Text(<<"<div class=\"hard-reset\" data-toolkit>\n">>)>> \o content
        \o <<Text(<<"\n</div>\n">>)>>

EncloseInComments(id, content) ==
    <<Text(<<"<!-- START '">> \o id \o <<"' -->\n">>)>> \o content
        \o <<Text(<<"\n<!-- END '">> \o id \o <<"' -->\n">>)>>

\* the text that parseMaterials registers for a material (index.js 370-421)
MaterialPartial(id, matterData, matterContent) ==
    LET localData == Omit(matterData, PropNotes)
        trimmed   == TrimBlankLines(matterContent)
        spaced    == NamespaceFields(trimmed, localData, id)
        reset     == IF options.wrapAndHardResetMaterials THEN HardReset(spaced) ELSE spaced
    IN  IF options.encloseInComments THEN EncloseInComments(id, reset) ELSE reset

\* obj[k] = v
Put(obj, k, v) == [x \in (DOMAIN obj) \cup {k} |-> IF x = k THEN v ELSE obj[x]]

(***************************************************************************)
(* Paths as strings, ordering and title case.                              *)
(***************************************************************************)
\* the characters of the model in the order of their character codes
Alphabet ==
    << " ", "#", "-", ".", "/", "0", "1", "2", "3", "4", "5", "6", "7", "8", "9",
       ">", "A", "B", "C", "D", "E", "F", "G", "H", "I", "J", "K", "L", "M", "N",
       "O", "P", "Q", "R", "S", "T", "U", "V", "W", "X", "Y", "Z", "_",
       "a", "b", "c", "d", "e", "f", "g", "h", "i", "j", "k", "l", "m", "n",
       "o", "p", "q", "r", "s", "t", "u", "v", "w", "x", "y", "z", "|" >>

CharCode(c) == CHOOSE i \in 1..Len(Alphabet) : Alphabet[i] = c

IsLower(c) == CharCode("a") <= CharCode(c) /\ CharCode(c) <= CharCode("z")

IsUpper(c) == CharCode("A") <= CharCode(c) /\ CharCode(c) <= CharCode("Z")

ToUpper(c) == IF IsLower(c) THEN Alphabet[CharCode(c) - CharCode("a") + CharCode("A")] ELSE c

ToLower(c) == IF IsUpper(c) THEN Alphabet[CharCode(c) - CharCode("A") + CharCode("a")] ELSE c

\* the default comparison of Array.prototype.sort on strings
RECURSIVE StrLess(_, _)
StrLess(a, b) ==
    IF Len(b) = 0 THEN FALSE
    ELSE IF Len(a) = 0 THEN TRUE
    ELSE IF a[1] # b[1] THEN CharCode(a[1]) < CharCode(b[1])
    ELSE StrLess(Tail(a), Tail(b))

\* path.join of the segments
RECURSIVE Join(_)
Join(segments) ==
    IF Len(segments) = 0 THEN <<>>
    ELSE IF Len(segments) = 1 THEN segments[1]
    ELSE segments[1] \o <<"/">> \o Join(Tail(segments))

\* path.dirname of a path given by its segments
Dirname(path) == SubSeq(path, 1, Len(path) - 1)

\* the character class \w
IsWordChar(c) == IsLower(c) \/ IsUpper(c) \/ IsDigit(c) \/ c = "_"

\* toTitleCase (index.js 286-290): "-" and "_" become spaces, then every
\* match of \w\S* has its first character in upper and the rest in lower case
toTitleCase(str) ==
    LET spaced == [i \in 1..Len(str) |-> IF str[i] \in {"-", "_"} THEN " " ELSE str[i]]
        \* a match of \w\S* starts at the first word character after a space
        \* or after the start, or after non-word characters that follow a space
        InMatch(i) == \E j \in 1..i :
                        /\ IsWordChar(spaced[j])
                        /\ \A k \in j..i : ~IsSpace(spaced[k])
        Starts(i) == InMatch(i) /\ (i = 1 \/ ~InMatch(i - 1))
    IN  [i \in 1..Len(spaced) |->
            IF Starts(i) THEN ToUpper(spaced[i])
            ELSE IF InMatch(i) THEN ToLower(spaced[i])
            ELSE spaced[i]]

(***************************************************************************)
(* The source tree.  A file is a record of its path (the segments from the *)
(* working directory), of the front matter that gray-matter reads from it  *)
(* and of its body.                                                        *)
(***************************************************************************)
Src == <<"s", "r", "c">>
Html == <<".", "h", "t", "m", "l">>

\* the directory of the materials option, 'src/materials/**/*' (index.js 51)
MaterialsRoot == <<Src, KeyMaterials>>

SourceFile(path, data, content) == [path |-> path, data |-> data, content |-> content]

\* src/materials/b/p.html: a bundled material of a flat collection, which
\* reads its own field t and the name of the doc i
FlatFile ==
    SourceFile(MaterialsRoot \o <<(<<"b">>), <<"p">> \o Html>>,
               << <<(<<"t">>), Value("string", "X")>>,
                  <<PropBundle, Value("boolean", "true")>> >>,
               <<Mustache(<<"t">>), Mustache(<<"d", "o", "c", "s", ".", "i", ".", "n", "a", "m", "e">>)>>)

\* src/materials/c/b/q.html: a material of the sub-collection b of c, with
\* bundle: 1, which includes the material p
SubFile ==
    SourceFile(MaterialsRoot \o <<(<<"c">>), <<"b">>, <<"q">> \o Html>>,
               << <<PropBundle, Value("number", "1")>> >>,
               <<Text(<<"q">>), Mustache(<<">", " ", "p">>)>>)

\* src/materials/materials/x.html: a bundled material one level below the
\* root, in a directory named like the root
RootNamedFile ==
    SourceFile(MaterialsRoot \o <<KeyMaterials, <<"x">> \o Html>>,
               << <<PropBundle, Value("boolean", "true")>> >>,
               <<Text(<<"x">>)>>)

\* src/materials/d/p.html: the file name of FlatFile in another collection
ClashFile ==
    SourceFile(MaterialsRoot \o <<(<<"d">>), <<"p">> \o Html>>,
               << <<(<<"t">>), Value("string", "Y")>>,
                  <<PropBundle, Value("string", "yes")>> >>,
               <<Text(<<"d">>), Mustache(<<"t", "t">>)>>)

\* src/materials/a.b/e/y.html: the directory above its collection has a dot
DottedFile ==
    SourceFile(MaterialsRoot \o <<(<<"a", ".", "b">>), <<"e">>, <<"y">> \o Html>>,
               <<>>,
               <<Text(<<"y">>)>>)

\* src/materials/c/1__h/r.html: a hidden sub-collection of c
HiddenFile ==
    SourceFile(MaterialsRoot \o <<(<<"c">>), <<"1", "_", "_", "h">>, <<"0", "1", "-", "r">> \o Html>>,
               << <<PropBundle, Value("boolean", "false")>> >>,
               <<Text(<<"r">>)>>)

MaterialFiles == {FlatFile, SubFile, RootNamedFile, ClashFile, DottedFile, HiddenFile}

\* src/docs/i.md
DocFile == SourceFile(<<Src, KeyDocs, <<"i", ".", "m", "d">> >>, <<>>, <<Text(<<"doc">>)>>)

\* src/views/g/a.html: a page that lists the materials
ViewFile ==
    SourceFile(<<Src, KeyViews, <<"g">>, <<"a">> \o Html>>,
               << <<(<<"t">>), Value("string", "page")>> >>,
               <<Mustache(<<"#", "e", "a", "c", "h", " "  >> \o KeyMaterials)>>)

\* src/views/layouts/default.html
LayoutBody == Text(<<"{% body %}">>)
LayoutFile ==
    SourceFile(<<Src, KeyViews, <<"l", "a", "y", "o", "u", "t", "s">>,
                 <<"d", "e", "f", "a", "u", "l", "t">> \o Html>>,
               <<>>,
               <<Text(<<"<html>">>), LayoutBody>>)

\* src/views/layouts/includes/f.html
IncludeFile ==
    SourceFile(<<Src, KeyViews, <<"l", "a", "y", "o", "u", "t", "s">>,
                 <<"i", "n", "c", "l", "u", "d", "e", "s">>, <<"f">> \o Html>>,
               <<>>,
               <<Text(<<"f">>)>>)

(***************************************************************************)
(* Hierarchy classifier (index.js 313-336, 354-358).                       *)
(***************************************************************************)
\* globby.sync(options.materials, ...).sort(): the paths in string order
SortedFiles(fileSet) ==
    IF fileSet = {} THEN <<>>
    ELSE CHOOSE seq \in [1..Cardinality(fileSet) -> fileSet] :
            \A i, j \in 1..Cardinality(fileSet) :
                i < j => StrLess(Join(seq[i].path), Join(seq[j].path))

\* dirs (index.js 317-325): the pattern path.dirname('src/materials/**/*')
\* + '/*/' matches every directory below the materials root; each is given
\* by its filtered name
FilteredDirs(fileSet) ==
    UNION { {filterName(f.path[k], FALSE) :
                k \in (Len(MaterialsRoot) + 1)..(Len(f.path) - 1)} : f \in fileSet }

\* path.normalize(path.dirname(file)).split(/[/\\]/).pop()
CollectionDir(file) == file.path[Len(file.path) - 1]

\* path.normalize(path.dirname(file)).split(/[/\\]/).slice(-2, -1)[0]
ParentDir(file) == file.path[Len(file.path) - 2]

collectionOf(file) == filterName(CollectionDir(file), FALSE)

parentOf(file) == filterName(ParentDir(file), FALSE)

\* isSubCollection of the stub pass (index.js 333)
StubIsSubCollection(file) == getName(<<parentOf(file)>>, FALSE) \in dirs

\* isSubCollection of the populate and bundling passes (index.js 356, 435)
IsSubCollection(file) == parentOf(file) \in dirs

\* id and key (index.js 357-358, 436-437)
MaterialId(file) ==
    IF IsSubCollection(file)
    THEN filterName(collectionOf(file), FALSE) \o <<".">> \o getName(file.path, FALSE)
    ELSE getName(file.path, FALSE)

(***************************************************************************)
(* Material registry (index.js 328-426).                                   *)
(***************************************************************************)
CollectionNode(name, dirPath) ==
    [name |-> toTitleCase(name), items |-> EmptyObject, exclude |-> isExcluded(dirPath)]

\* fileMatter.data.bundle == true: the loose comparison converts both sides
\* to numbers, so true, 1 and the string "1" compare equal to true
LooseEqualsTrue(v) ==
    \/ v.type = "boolean" /\ v.repr = "true"
    \/ v.type = "number" /\ v.repr = "1"
    \/ v.type = "string" /\ v.repr = "1"

\* fileMatter.data.notes ? md.render(fileMatter.data.notes) : ''
RenderedNotes(data) ==
    IF Has(data, PropNotes) THEN <<"md", Get(data, PropNotes).repr>> ELSE <<>>

PropUpdated == <<"u", "p", "d", "a", "t", "e", "d">>

\* the meta data captured for a material (index.js 378-394)
ItemNode(file, displayId) ==
    [ name |-> toTitleCase(displayId),
      notes |-> RenderedNotes(file.data),
      data |-> Omit(file.data, PropNotes),
      exclude |-> isExcluded(file.path),
      bundle |-> LooseEqualsTrue(Get(file.data, PropBundle)),
      updated |-> Get(file.data, PropUpdated) ]

\* id.split('.')[1]
SecondPart(id) ==
    LET dots  == {i \in 1..Len(id) : id[i] = "."}
        first == CHOOSE i \in dots : \A j \in dots : i <= j
        rest  == From(id, first + 1)
        more  == {i \in 1..Len(rest) : rest[i] = "."}
    IN  IF more = {} THEN rest
        ELSE SubSeq(rest, 1, (CHOOSE i \in more : \A j \in more : i <= j) - 1)

\* the stub of the stub pass (index.js 340-344)
StubBase(materials, file) ==
    LET base == IF StubIsSubCollection(file) THEN parentOf(file) ELSE collectionOf(file)
    IN  IF base \in DOMAIN materials THEN materials
        ELSE Put(materials, base, CollectionNode(base, Dirname(file.path)))

\* does the populate pass dereference undefined for this file (a TypeError)
PopulateThrows(materials, file) ==
    IF IsSubCollection(file)
    THEN \/ parentOf(file) \notin DOMAIN materials
         \/ /\ collectionOf(file) \in DOMAIN materials[parentOf(file)].items
            /\ "items" \notin DOMAIN materials[parentOf(file)].items[collectionOf(file)]
    ELSE collectionOf(file) \notin DOMAIN materials

\* the tree after the populate pass has handled the file (index.js 361-395)
Populated(materials, file) ==
    LET id  == MaterialId(file)
        col == collectionOf(file)
        par == parentOf(file)
    IN  IF ~IsSubCollection(file)
        THEN [materials EXCEPT ![col].items = Put(@, id, ItemNode(file, id))]
        ELSE LET sub == IF col \in DOMAIN materials[par].items
                        THEN materials[par].items[col]
                        ELSE CollectionNode(col, <<CollectionDir(file)>>)
                 new == [sub EXCEPT !.items = Put(@, id, ItemNode(file, SecondPart(id)))]
             IN  [materials EXCEPT ![par].items = Put(@, col, new)]

(***************************************************************************)
(* The rendering engine.  Handlebars is outside the model: what is kept of *)
(* compile(text)(context) is that a text token is printed as it is, that   *)
(* an inclusion prints the registered fragment in the same context and     *)
(* throws when no fragment has that name, and that what a reference prints *)
(* is computed from its path and from the context value under the first    *)
(* segment of the path.                                                    *)
(***************************************************************************)
IsInclusion(tok) ==
    tok.kind = "mustache" /\ Len(tok.inner) > 0 /\ tok.inner[1] = ">"

InclusionName(tok) == Trim(From(tok.inner, 2))

\* the last word of s
LastWord(s) ==
    LET spaces == {i \in 1..Len(s) : IsSpace(s[i])}
    IN  IF spaces = {} THEN s
        ELSE From(s, (CHOOSE i \in spaces : \A j \in spaces : j <= i) + 1)

\* the segment of the path before the first "."
FirstSegment(s) ==
    LET dots == {i \in 1..Len(s) : s[i] = "."}
    IN  IF dots = {} THEN s
        ELSE SubSeq(s, 1, (CHOOSE i \in dots : \A j \in dots : i <= j) - 1)

\* the context key that a reference token reads
ReferenceHead(tok) ==
    LET inner == tok.inner
        body  == IF Len(inner) > 0 /\ inner[1] \in {"#", "/"} THEN From(inner, 2) ELSE inner
    IN  FirstSegment(LastWord(Trim(body)))

Printed(tok, context) ==
    [ kind |-> "printed",
      inner |-> tok.inner,
      of |-> IF ReferenceHead(tok) \in DOMAIN context
             THEN <<context[ReferenceHead(tok)]>>
             ELSE <<>> ]

RenderFailed == [ok |-> FALSE, out |-> <<>>]

\* the deepest nesting of inclusions that the model follows
MaxInclusionDepth == 3

RECURSIVE Render(_, _, _)
Render(content, context, depth) ==
    IF Len(content) = 0 THEN [ok |-> TRUE, out |-> <<>>]
    ELSE LET tok  == content[1]
             head == IF tok.kind = "text" THEN [ok |-> TRUE, out |-> <<tok>>]
                     ELSE IF IsInclusion(tok)
                     THEN IF InclusionName(tok) \in DOMAIN partials /\ depth > 0
                          THEN Render(partials[InclusionName(tok)], context, depth - 1)
                          ELSE RenderFailed
                     ELSE [ok |-> TRUE, out |-> <<Printed(tok, context)>>]
             rest == Render(Tail(content), context, depth)
         IN  IF head.ok /\ rest.ok
             THEN [ok |-> TRUE, out |-> head.out \o rest.out]
             ELSE RenderFailed

\* wrapPage (index.js 299-301): the first {% body %} of the layout
wrapPage(page, layout) ==
    LET marks == {i \in 1..Len(layout) : layout[i] = LayoutBody}
    IN  IF marks = {} THEN layout
        ELSE LET at == CHOOSE i \in marks : \A j \in marks : i <= j
             IN  SubSeq(layout, 1, at - 1) \o page \o From(layout, at + 1)

(***************************************************************************)
(* Output paths (index.js 450-460, 1115-1138).                             *)
(***************************************************************************)
\* the character class [0-9a-z]
IsExtChar(c) == IsDigit(c) \/ IsLower(c)

\* str.replace(/\.[0-9a-z]+$/, '.' + ext)
ReplaceExtension(str, ext) ==
    LET at == {i \in 1..(Len(str) - 1) :
                  str[i] = "." /\ \A j \in (i + 1)..Len(str) : IsExtChar(str[j])}
    IN  IF at = {} THEN str
        ELSE SubSeq(str, 1, (CHOOSE i \in at : \A j \in at : i <= j) - 1) \o <<".">> \o ext

\* path.dirname of a path given as a string
DirnameOfString(str) ==
    LET slashes == {i \in 1..Len(str) : str[i] = "/"}
    IN  IF slashes = {} THEN <<".">>
        ELSE SubSeq(str, 1, (CHOOSE i \in slashes : \A j \in slashes : j <= i) - 1)

Bundles == <<"b", "u", "n", "d", "l", "e", "s">>

\* baseName (index.js 451)
BundleBaseName(file) == filterName(BasenameExt(file.path, Html), FALSE)

\* data.data.extension || "html"
BundleExtension(node) ==
    IF Has(node.data, PropExtension) /\ Get(node.data, PropExtension).repr # ""
    THEN Get(node.data, PropExtension).repr
    ELSE Tail(Html)

\* filePath of a bundle (index.js 457-460)
BundleFilePath(file, node) ==
    filterName(
        ReplaceExtension(
            Join(<<options.dest, Bundles, BundleBaseName(file),
                   filterName(Basename(file.path), FALSE)>>),
            BundleExtension(node)),
        FALSE)

\* the directory the co-located assets are copied into (index.js 482-532)
BundleAssetDir(file) == Join(<<options.dest, Bundles, BundleBaseName(file)>>)

\* the six optional assets: what exists below <dest>/assets/toolkit, and the
\* name of the copy in the directory of the bundle
AssetKinds == {"item.css", "item.js", "toolkit.css", "toolkit.js", "vendor.css", "vendor.js"}

AssetCopyName(kind, baseName) ==
    CASE kind = "item.css" -> baseName \o <<".", "c", "s", "s">>
      [] kind = "item.js" -> baseName \o <<".", "j", "s">>
      [] kind = "toolkit.css" -> <<"t", "o", "o", "l", "k", "i", "t", ".", "c", "s", "s">>
      [] kind = "toolkit.js" -> <<"t", "o", "o", "l", "k", "i", "t", ".", "j", "s">>
      [] kind = "vendor.css" -> <<"v", "e", "n", "d", "o", "r", ".", "c", "s", "s">>
      [] kind = "vendor.js" -> <<"v", "e", "n", "d", "o", "r", ".", "j", "s">>

(***************************************************************************)
(* A run of the exported function (index.js 1159-1181): setup, assemble    *)
(* and the removal of the bundle asset folders, or handleError.            *)
(***************************************************************************)
MaxRuns == 2

Trees == {t \in SUBSET MaterialFiles : Cardinality(t) <= MaxFiles}

\* the source tree as the next run finds it: unchanged, or with one
\* material file removed, or with the doc file added or removed
Edits(t) ==
    {t} \cup {[t EXCEPT !.materials = @ \ {f}] : f \in t.materials}
        \cup {[t EXCEPT !.docs = {DocFile} \ @]}

NotHandled == [onError |-> 0, logged |-> 0, exit |-> FALSE]

\* the state before the first call, for the given choices of the assets
\* that exist and of the options that the caller passes
RunInit(assetChoices, optionChoices) ==
    /\ tree \in [materials : Trees, docs : SUBSET {DocFile}]
    /\ assets \in assetChoices
    /\ userOptions \in optionChoices
    /\ options = EmptyObject
    /\ assembly = assemblyInit
    /\ partials = EmptyObject
    /\ written = EmptyObject
    /\ pc = "idle"
    /\ files = <<>>
    /\ dirs = {}
    /\ idx = 0
    /\ handled = NotHandled
    /\ history = <<>>
    /\ call = Null
    /\ ret = Null

\* a caller that passes onError and logErrors, and no dest
RunInitWith(assetChoices) ==
    RunInit(assetChoices, [onError : BOOLEAN, logErrors : BOOLEAN])

Init == RunInitWith({{}, AssetKinds})

\* module.exports is called; setup merges the options (index.js 1084)
Start ==
    /\ pc \in {"idle", "done", "failed"}
    /\ Len(history) < MaxRuns
    /\ tree' \in (IF pc = "idle" THEN {tree} ELSE Edits(tree))
    /\ options' = [defaults EXCEPT
                        !.onError = userOptions.onError,
                        !.logErrors = userOptions.logErrors,
                        !.dest = IF "dest" \in DOMAIN userOptions THEN userOptions.dest ELSE @]
    /\ written' = EmptyObject
    /\ handled' = NotHandled
    /\ pc' = "registerHelpers"
    /\ UNCHANGED <<assets, userOptions, assembly, partials, files, dirs, idx, history, call, ret>>

registerHelpers ==
    /\ pc = "registerHelpers"
    /\ pc' = "parseLayouts"
    /\ UNCHANGED <<tree, assets, userOptions, options, assembly, partials, written,
                   files, dirs, idx, handled, history, call, ret>>

\* parseLayouts (index.js 790-805)
parseLayouts ==
    /\ pc = "parseLayouts"
    /\ assembly' = [assembly EXCEPT !.layouts =
                        Single(getName(LayoutFile.path, FALSE), LayoutFile.content)]
    /\ pc' = "parseLayoutIncludes"
    /\ UNCHANGED <<tree, assets, userOptions, options, partials, written,
                   files, dirs, idx, handled, history, call, ret>>

\* parseLayoutIncludes (index.js 811-826)
parseLayoutIncludes ==
    /\ pc = "parseLayoutIncludes"
    /\ LET id == getName(IncludeFile.path, FALSE)
       IN  partials' = Put(partials, id,
                           IF options.encloseInComments
                           THEN EncloseInComments(id, IncludeFile.content)
                           ELSE IncludeFile.content)
    /\ pc' = "parseData"
    /\ UNCHANGED <<tree, assets, userOptions, options, assembly, written,
                   files, dirs, idx, handled, history, call, ret>>

\* parseData (index.js 832-847); the tree holds no data file
parseData ==
    /\ pc = "parseData"
    /\ assembly' = [assembly EXCEPT !.data = EmptyObject]
    /\ pc' = "parseMaterials"
    /\ UNCHANGED <<tree, assets, userOptions, options, partials, written,
                   files, dirs, idx, handled, history, call, ret>>

\* the start of parseMaterials (index.js 310-325)
parseMaterials ==
    /\ pc = "parseMaterials"
    /\ assembly' = [assembly EXCEPT !.materials = EmptyObject]
    /\ files' = SortedFiles(tree.materials)
    /\ dirs' = FilteredDirs(tree.materials)
    /\ idx' = 1
    /\ pc' = IF tree.materials = {} THEN "parseViews" ELSE "stub"
    /\ UNCHANGED <<tree, assets, userOptions, options, partials, written,
                   handled, history, call, ret>>

\* a loop that hands over to the next stage after its first file
LoopStepFirstOnly(next) == idx' = 1 /\ pc' = next

\* the loop goes on with the next file, or the next stage begins
LoopStep(next) ==
    IF idx < Len(files)
    THEN idx' = idx + 1 /\ pc' = pc
    ELSE idx' = 1 /\ pc' = next

\* one callback of the stub pass (index.js 329-346)
StubFile ==
    /\ pc = "stub"
    /\ assembly' = [assembly EXCEPT !.materials = StubBase(@, files[idx])]
    /\ LoopStep("populate")
    /\ UNCHANGED <<tree, assets, userOptions, options, partials, written,
                   files, dirs, handled, history, call, ret>>

\* one callback of the populate pass (index.js 350-426)
PopulateFile ==
    /\ pc = "populate"
    /\ LET file == files[idx]
           id   == MaterialId(file)
       IN  IF PopulateThrows(assembly.materials, file)
           THEN /\ pc' = "catch"
                /\ UNCHANGED <<assembly, partials, idx>>
           ELSE /\ assembly' = [assembly EXCEPT
                                    !.materials = Populated(@, file),
                                    !.materialData =
                                        Put(@, DotsToDashes(id), Omit(file.data, PropNotes))]
                /\ partials' = Put(partials, id, MaterialPartial(id, file.data, file.content))
                /\ LoopStep("bundle")
    /\ UNCHANGED <<tree, assets, userOptions, options, written,
                   files, dirs, handled, history, call, ret>>

\* does the bundling pass dereference undefined for this file (index.js 441-445)
BundleLookupThrows(materials, file) ==
    IF IsSubCollection(file)
    THEN \/ parentOf(file) \notin DOMAIN materials
         \/ collectionOf(file) \notin DOMAIN materials[parentOf(file)].items
         \/ "items" \notin DOMAIN materials[parentOf(file)].items[collectionOf(file)]
    ELSE collectionOf(file) \notin DOMAIN materials

\* the collection the bundling pass looks the material up in
BundleItems(materials, file) ==
    IF IsSubCollection(file)
    THEN materials[parentOf(file)].items[collectionOf(file)].items
    ELSE materials[collectionOf(file)].items

\* data && data.bundle (index.js 447)
IsBundled(materials, file) ==
    /\ MaterialId(file) \in DOMAIN BundleItems(materials, file)
    /\ "bundle" \in DOMAIN BundleItems(materials, file)[MaterialId(file)]
    /\ BundleItems(materials, file)[MaterialId(file)].bundle

PropName == <<"n", "a", "m", "e">>
PropData == <<"d", "a", "t", "a">>
PropExclude == <<"e", "x", "c", "l", "u", "d", "e">>

\* an item node as the data argument of buildContext
NodeAsData(node) ==
    [k \in {PropName, PropNotes, PropData, PropExclude, PropBundle, PropUpdated} |->
        CASE k = PropName -> node.name
          [] k = PropNotes -> node.notes
          [] k = PropData -> node.data
          [] k = PropExclude -> node.exclude
          [] k = PropBundle -> node.bundle
          [] k = PropUpdated -> node.updated]

\* front-matter data as the data argument of buildContext
ObjectOf(data) == [k \in Keys(data) |-> Get(data, k)]

\* the rendering of a bundle (index.js 454-456, 464)
BundleRender(file, node) ==
    Render(<<Mustache(<<">", " ">> \o MaterialId(file) \o <<" ">>)>>,
           buildContext(NodeAsData(node), EmptyObject),
           MaxInclusionDepth)

\* fs.writeFileSync(dest, fs.readFileSync(source)) throws when the source does
\* not exist, or when mkdirp has not made the directory of the copy
\* (index.js 463, 484)
AssetCopyThrows(file, node, kind) ==
    \/ kind \notin assets
    \/ DirnameOfString(BundleFilePath(file, node)) # BundleAssetDir(file)

\* a try block without its catch: what the copy throws leaves the block
TryCopyUncaught(file, node, kind) ==
    [ copied |-> ~AssetCopyThrows(file, node, kind),
      escapes |-> AssetCopyThrows(file, node, kind) ]

\* one try { copy } catch (e) {} block (index.js 479-486, and the five that
\* follow): the copy is made unless it throws, and nothing leaves the block
TryCopy(file, node, kind) ==
    [ copied |-> ~AssetCopyThrows(file, node, kind),
      escapes |-> FALSE ]

\* the assets that the six try blocks copy
CopiedAssets(file, node) == {k \in AssetKinds : TryCopy(file, node, k).copied}

\* the assets whose try block lets an exception out
EscapedAssets(file, node) == {k \in AssetKinds : TryCopy(file, node, k).escapes}

AssetCopyPath(file, kind) ==
    BundleAssetDir(file) \o <<"/">> \o AssetCopyName(kind, BundleBaseName(file))

\* fs.writeFileSync of the same content to every path of a set
WriteAll(disk, paths, content) ==
    [q \in (DOMAIN disk) \cup paths |-> IF q \in paths THEN content ELSE disk[q]]

\* one callback of the bundling pass (index.js 430-746)
BundleFile ==
    /\ pc = "bundle"
    /\ LET file == files[idx]
       IN  IF BundleLookupThrows(assembly.materials, file)
           THEN /\ pc' = "catch"
                /\ UNCHANGED <<written, idx>>
           ELSE IF ~IsBundled(assembly.materials, file)
           THEN /\ LoopStep("parseViews")
                /\ UNCHANGED written
           ELSE LET node     == BundleItems(assembly.materials, file)[MaterialId(file)]
                    rendered == BundleRender(file, node)
                    copies   == {AssetCopyPath(file, k) : k \in CopiedAssets(file, node)}
                    asset    == <<Text(<<"asset">>)>>
                IN  IF ~rendered.ok
                    THEN /\ pc' = "catch"
                         /\ UNCHANGED <<written, idx>>
                    ELSE IF EscapedAssets(file, node) # {}
                    THEN /\ written' = Put(written, BundleFilePath(file, node), rendered.out)
                         /\ pc' = "catch"
                         /\ UNCHANGED idx
                    ELSE /\ written' = WriteAll(Put(written, BundleFilePath(file, node),
                                                    rendered.out),
                                                copies, asset)
                         /\ LoopStep("parseViews")
    /\ UNCHANGED <<tree, assets, userOptions, options, assembly, partials,
                   files, dirs, handled, history, call, ret>>

\* parseViews (index.js 853-900) for the one view of the tree
parseViews ==
    /\ pc = "parseViews"
    /\ LET id         == getName(ViewFile.path, TRUE)
           dirname    == CollectionDir(ViewFile)
           collection == IF dirname # options.keys.views THEN dirname ELSE <<>>
           item       == [ name |-> toTitleCase(id),
                           data |-> Omit(ViewFile.data, PropNotes),
                           exclude |-> isExcluded(ViewFile.path),
                           updated |-> Get(ViewFile.data, PropUpdated) ]
       IN  assembly' = [assembly EXCEPT !.views =
                IF collection # <<>>
                THEN Single(collection,
                            [name |-> toTitleCase(collection), items |-> Single(id, item)])
                ELSE EmptyObject]
    /\ pc' = "parseDocs"
    /\ UNCHANGED <<tree, assets, userOptions, options, partials, written,
                   files, dirs, idx, handled, history, call, ret>>

\* parseDocs (index.js 762-784)
parseDocs ==
    /\ pc = "parseDocs"
    /\ assembly' = [assembly EXCEPT !.docs =
            [id \in {getName(f.path, FALSE) : f \in tree.docs} |->
                LET f == CHOOSE g \in tree.docs : getName(g.path, FALSE) = id
                IN  [ name |-> toTitleCase(id),
                      content |-> <<"md", f.content>>,
                      exclude |-> isExcluded(f.path) ]]]
    /\ pc' = "assemble"
    /\ UNCHANGED <<tree, assets, userOptions, options, partials, written,
                   files, dirs, idx, handled, history, call, ret>>

PropLayout == <<"l", "a", "y", "o", "u", "t">>
PropBaseurl == <<"b", "a", "s", "e", "u", "r", "l">>

\* filePath of a page (index.js 1115-1117, 1138)
PageFilePath(file) ==
    LET dirname    == CollectionDir(file)
        collection == IF dirname # options.keys.views THEN <<dirname>> ELSE <<>>
    IN  filterName(
            ReplaceExtension(Join(<<options.dest>> \o collection \o <<Basename(file.path)>>),
                             Tail(Html)),
            FALSE)

\* assemble (index.js 1101-1152) for the one view of the tree
assemble ==
    /\ pc = "assemble"
    /\ LET dirname  == CollectionDir(ViewFile)
           pageData == IF dirname # options.keys.views
                       THEN Put(ObjectOf(ViewFile.data), PropBaseurl, Value("string", "../"))
                       ELSE ObjectOf(ViewFile.data)
           layoutId == IF Has(ViewFile.data, PropLayout)
                       THEN Get(ViewFile.data, PropLayout).repr
                       ELSE options.layout
           rendered == IF layoutId \in DOMAIN assembly.layouts
                       THEN Render(wrapPage(ViewFile.content, assembly.layouts[layoutId]),
                                   buildContext(pageData, EmptyObject),
                                   MaxInclusionDepth)
                       ELSE RenderFailed
       IN  IF rendered.ok
           THEN /\ written' = Put(written, PageFilePath(ViewFile), rendered.out)
                /\ pc' = "cleanup"
           ELSE /\ pc' = "catch"
                /\ UNCHANGED written
    /\ UNCHANGED <<tree, assets, userOptions, options, assembly, partials,
                   files, dirs, idx, handled, history, call, ret>>

\* the record of a run that has returned
RunRecord(outcome) == [tree |-> tree, written |-> written, outcome |-> outcome]

\* the removal of the bundle asset folders (index.js 1170-1175), and the return
cleanup ==
    /\ pc = "cleanup"
    /\ assets' = assets \ {"item.css", "item.js"}
    /\ history' = Append(history, RunRecord("done"))
    /\ pc' = "done"
    /\ UNCHANGED <<tree, userOptions, options, assembly, partials, written,
                   files, dirs, idx, handled, call, ret>>

\* a handler that reports the error and lets the run go on with the views
handleErrorAndResume ==
    /\ pc = "catch"
    /\ handled' = [handled EXCEPT !.logged = @ + 1]
    /\ pc' = "parseViews"
    /\ UNCHANGED <<tree, assets, userOptions, options, assembly, partials, written,
                   files, dirs, idx, history, call, ret>>

\* exit after the callback only: logging does not keep the process alive
ExitAfterCallbackOnly(onError, logErrors) == ~onError

\* the exit flag of handleError (index.js 229, 241, 247): it starts true and
\* is cleared by the callback branch and by the logging branch
ExitAfter(onError, logErrors) == ~onError /\ ~logErrors

\* handleError (index.js 226-256); handled counts the calls of the callback
\* and the calls of console.error, which the logging branch and the exit
\* branch both make
handleError ==
    /\ pc = "catch"
    /\ LET exit == ExitAfter(options.onError, options.logErrors)
       IN  /\ handled' = [ onError |-> IF options.onError THEN 1 ELSE 0,
                           logged |-> (IF options.logErrors THEN 1 ELSE 0)
                                        + (IF exit THEN 1 ELSE 0),
                           exit |-> exit ]
           /\ pc' = IF exit THEN "exited" ELSE "failed"
           /\ history' = Append(history, RunRecord(IF exit THEN "exited" ELSE "failed"))
    /\ UNCHANGED <<tree, assets, userOptions, options, assembly, partials, written,
                   files, dirs, idx, call, ret>>

Next ==
    \/ Start
    \/ registerHelpers
    \/ parseLayouts
    \/ parseLayoutIncludes
    \/ parseData
    \/ parseMaterials
    \/ StubFile
    \/ PopulateFile
    \/ BundleFile
    \/ parseViews
    \/ parseDocs
    \/ assemble
    \/ cleanup
    \/ handleError

Spec == Init /\ [][Next]_vars

\* the catch block of the exported function runs as soon as a stage has
\* thrown (index.js 1177-1179)
SpecLive == Spec /\ WF_vars(handleError)

\* the material files whose item node is flagged for bundling
BundledFiles == {f \in MaterialFiles : LooseEqualsTrue(Get(f.data, PropBundle))}

\* the same run with every combination of the six assets, for a caller that
\* passes onError and logErrors and a tree that starts with bundled
\* materials only and without the doc
InitBundle ==
    /\ RunInitWith(SUBSET AssetKinds)
    /\ tree.materials \subseteq BundledFiles
    /\ tree.docs = {}
    /\ userOptions = [onError |-> TRUE, logErrors |-> TRUE]

SpecBundle == InitBundle /\ [][Next]_vars

\* values of the dest option: the default, "../d", "1d" and "a b"
DestChoices == {Dist, <<".", ".", "/", "d">>, <<"1", "d">>, <<"a", " ", "b">>}

\* the same run for a caller that also passes dest, with a tree of bundled
\* materials and with all or none of the assets
InitDest ==
    /\ RunInit({{}, AssetKinds},
               [onError : {TRUE}, logErrors : {TRUE}, dest : DestChoices])
    /\ tree.materials \subseteq BundledFiles
    /\ tree.docs = {}

SpecDest == InitDest /\ [][Next]_vars

\* the state of the run variables while a function is applied to drawn inputs
NoRun ==
    /\ tree = [materials |-> {}, docs |-> {}]
    /\ assets = {}
    /\ userOptions = [onError |-> FALSE, logErrors |-> FALSE]
    /\ written = EmptyObject
    /\ pc = "apply"
    /\ files = <<>>
    /\ dirs = {}
    /\ idx = 0
    /\ handled = NotHandled
    /\ history = <<>>

(***************************************************************************)
(* The name resolver applied to drawn names.                               *)
(***************************************************************************)
NameChars == {"1", ".", "_", "-", "a", " "}

NameInit ==
    /\ options = defaults
    /\ assembly = assemblyInit
    /\ partials = EmptyObject
    /\ NoRun
    /\ call \in {[fn |-> "none", name |-> n] : n \in StringsUpTo(NameChars, MaxNameLen)}
    /\ ret = Null

ApplyIsExcluded ==
    /\ call.fn = "none"
    /\ call' = [call EXCEPT !.fn = "isExcluded"]
    /\ ret' = [value |-> isExcluded(<<call.name>>)]
    /\ UNCHANGED <<options, assembly, partials, runVars>>

ApplyFilterName ==
    /\ call.fn = "none"
    /\ \E preserveNumbers \in BOOLEAN :
        /\ call' = [call EXCEPT !.fn = "filterName"] @@ [preserveNumbers |-> preserveNumbers]
        /\ ret' = [value |-> filterName(call.name, preserveNumbers)]
    /\ UNCHANGED <<options, assembly, partials, runVars>>

ApplyGetName ==
    /\ call.fn = "none"
    /\ \E preserveNumbers \in BOOLEAN :
        /\ call' = [call EXCEPT !.fn = "getName"] @@ [preserveNumbers |-> preserveNumbers]
        /\ ret' = [value |-> getName(<<call.name>>, preserveNumbers)]
    /\ UNCHANGED <<options, assembly, partials, runVars>>

NameNext == ApplyIsExcluded \/ ApplyFilterName \/ ApplyGetName

SpecName == NameInit /\ [][NameNext]_vars

(***************************************************************************)
(* The context builder applied to drawn sources.  Every source gives its   *)
(* own value to the keys it defines, so that the result shows which source *)
(* a key was taken from.                                                   *)
(***************************************************************************)
CtxKeys == {<<"a">>, KeyMaterials}

\* an object defining the keys of dom, each with the value v
Tagged(dom, v) == [k \in dom |-> v]

CtxInit ==
    /\ \E km \in {KeyMaterials, <<"a">>}, kv \in {KeyViews, <<"a">>}, kd \in {KeyDocs, <<"a">>} :
        options = [defaults EXCEPT !.keys = [materials |-> km, views |-> kv, docs |-> kd]]
    /\ \E d \in SUBSET CtxKeys, md \in SUBSET CtxKeys :
        assembly = [assemblyInit EXCEPT
                        !.data = Tagged(d, "data file"),
                        !.materialData = Tagged(md, "material data"),
                        !.materials = "materials tree",
                        !.views = "views tree",
                        !.docs = "docs tree"]
    /\ \E pd \in SUBSET CtxKeys, h \in SUBSET CtxKeys :
        call = [fn |-> "none", data |-> Tagged(pd, "page data"), hash |-> Tagged(h, "hash")]
    /\ partials = EmptyObject
    /\ ret = Null
    /\ NoRun

ApplyBuildContext ==
    /\ call.fn = "none"
    /\ call' = [call EXCEPT !.fn = "buildContext"]
    /\ ret' = [value |-> buildContext(call.data, call.hash)]
    /\ UNCHANGED <<options, assembly, partials, runVars>>

CtxNext == ApplyBuildContext

SpecCtx == CtxInit /\ [][CtxNext]_vars

(***************************************************************************)
(* The registration of one material (index.js 370-424) applied to drawn    *)
(* front matter and bodies: the field namespacer, the namespaced-data      *)
(* entry and the registered fragment.                                      *)
(***************************************************************************)
NsFields == {<<"t">>, <<"e">>, PropNotes}

NsInners ==
    { <<"t">>, <<"#", "t">>, <<"/", "t">>, <<"t", "t">>, <<"#", "t", "t">>,
      <<"e">>, <<" ", "t", " ">>, <<">", " ", "t">> }

NsTokens == {Mustache(i) : i \in NsInners} \cup {Text(<<"x">>), Text(<<"\n">>)}

NsIds == {<<"p">>, <<"b", ".", "p">>}

\* the ordered objects with at most two of the fields
NsData ==
    LET V(k) == Value("string", "v")
        Pair(k) == <<k, V(k)>>
    IN  {<<>>} \cup {<<Pair(k)>> : k \in NsFields}
            \cup {<<Pair(ks[1]), Pair(ks[2])>> :
                    ks \in {x \in NsFields \X NsFields : x[1] # x[2]}}

NsInit ==
    /\ \E wrap \in BOOLEAN :
        options = [defaults EXCEPT !.encloseInComments = wrap,
                                   !.wrapAndHardResetMaterials = wrap]
    /\ assembly = assemblyInit
    /\ partials = EmptyObject
    /\ NoRun
    /\ call \in {[fn |-> "none", id |-> id, data |-> d, content |-> c] :
                    id \in NsIds, d \in NsData, c \in StringsUpTo(NsTokens, MaxTokens)}
    /\ ret = Null

ApplyRegisterMaterial ==
    /\ call.fn = "none"
    /\ call' = [call EXCEPT !.fn = "registerMaterial"]
    /\ assembly' = [assembly EXCEPT !.materialData =
                        Put(@, DotsToDashes(call.id), Omit(call.data, PropNotes))]
    /\ partials' = Put(partials, call.id, MaterialPartial(call.id, call.data, call.content))
    /\ UNCHANGED <<options, ret, runVars>>

NsNext == ApplyRegisterMaterial

SpecNs == NsInit /\ [][NsNext]_vars

\* the mustache tokens of a text, in order
Mustaches(content) ==
    LET IsMustache(tok) == tok.kind = "mustache"
    IN  SelectSeq(content, IsMustache)

\* the block marker of a reference token: "#", "/" or none
Marker(inner) ==
    IF Len(inner) > 0 /\ inner[1] \in {"#", "/"} THEN <<inner[1]>> ELSE <<>>

\* the name of a reference token: what follows the optional block marker,
\* without the spaces around it
TokenName(inner) == Trim(From(inner, Len(Marker(inner)) + 1))

\* the fields that the material declares (its front matter minus notes)
Declared == Keys(Omit(call.data, PropNotes))

\* C6: registering a material with id I and data D rewrites every token
\* {{f}}, {{#f}}, {{/f}} whose f is a field of D to the same token with the
\* name <I with dashes>.f, registers the text under I, and stores D under
\* the key <I with dashes> of the namespaced-data map.
C6_RegistrationNamespacesFields ==
    call.fn = "registerMaterial" =>
        LET source == Mustaches(call.content)
            dashed == DotsToDashes(call.id)
        IN  /\ call.id \in DOMAIN partials
            /\ Len(Mustaches(partials[call.id])) = Len(source)
            /\ \A i \in 1..Len(source) :
                  \A f \in Declared :
                      source[i].inner = Marker(source[i].inner) \o f
                          => Mustaches(partials[call.id])[i].inner
                                = Marker(source[i].inner) \o dashed \o <<".">> \o f
            /\ dashed \in DOMAIN assembly.materialData
            /\ assembly.materialData[dashed] = Omit(call.data, PropNotes)

\* C6 witness: a material with the dotted id and the field t was registered
\* from a body that holds {{t}} and {{#t}}
C6_Witness ==
    /\ call.fn = "registerMaterial"
    /\ call.id = <<"b", ".", "p">>
    /\ <<"t">> \in Declared
    /\ call.content = <<Mustache(<<"t">>), Mustache(<<"#", "t">>)>>
    /\ partials[call.id] # call.content

\* C7 as stated: a reference token whose name is not one of the declared
\* fields is registered unchanged.
C7_OnlyWholeTokensRewritten ==
    call.fn = "registerMaterial" =>
        LET source == Mustaches(call.content)
        IN  /\ Len(Mustaches(partials[call.id])) = Len(source)
            /\ \A i \in 1..Len(source) :
                  TokenName(source[i].inner) \notin Declared
                      => Mustaches(partials[call.id])[i] = source[i]

\* the seven sources of the context, lowest precedence first
CtxSources ==
    <<call.data, assembly.data, assembly.materialData,
      Single(options.keys.materials, assembly.materials),
      Single(options.keys.views, assembly.views),
      Single(options.keys.docs, assembly.docs),
      call.hash>>

\* the last source that defines the key k (0 when none does)
LastDefining(k) ==
    LET S == {i \in 1..Len(CtxSources) : k \in DOMAIN CtxSources[i]}
    IN  IF S = {} THEN 0 ELSE CHOOSE i \in S : \A j \in S : j <= i

\* the keys of the globally collected sources
GlobalKeys ==
    UNION {DOMAIN CtxSources[i] : i \in 2..6}

\* C1: the context holds, for every key, the value of the last of the seven
\* sources (page data, data files, namespaced data, materials bucket, views
\* bucket, docs bucket, hash) that defines the key, and no other key.
C1_ContextIsOrderedMerge ==
    call.fn = "buildContext" =>
        /\ DOMAIN ret.value = UNION {DOMAIN CtxSources[i] : i \in 1..Len(CtxSources)}
        /\ \A k \in DOMAIN ret.value :
              ret.value[k] = CtxSources[LastDefining(k)][k]

\* C1 witness: a context was built in which page data and hash collide on a
\* key that no global source defines, and the hash value won
C1_Witness ==
    /\ call.fn = "buildContext"
    /\ \E k \in (DOMAIN call.data) \cap (DOMAIN call.hash) :
          k \notin GlobalKeys /\ ret.value[k] = "hash"

\* C2 as stated: a key defined by page data or by the hash and also by a
\* global source holds the page-data (or hash) value.
C2_PageAndHashOverrideGlobal ==
    call.fn = "buildContext" =>
        \A k \in GlobalKeys :
            /\ k \in DOMAIN call.hash => ret.value[k] = call.hash[k]
            /\ (k \in DOMAIN call.data /\ k \notin DOMAIN call.hash)
                  => ret.value[k] = call.data[k]

\* C2 amended: only the hash overrides globally collected data; a key defined
\* by page data and by a global source, and not by the hash, holds the value
\* of the global source, never the page-data value.
C2_OnlyHashOverridesGlobal ==
    call.fn = "buildContext" =>
        \A k \in GlobalKeys :
            /\ k \in DOMAIN call.hash => ret.value[k] = call.hash[k]
            /\ (k \in DOMAIN call.data /\ k \notin DOMAIN call.hash)
                  => /\ ret.value[k] # call.data[k]
                     /\ \E i \in 2..6 : k \in DOMAIN CtxSources[i]
                                         /\ ret.value[k] = CtxSources[i][k]

\* C2 witness: a context was built for a key that page data and a global
\* source define, and for a key that the hash and a global source define
C2_Witness ==
    /\ call.fn = "buildContext"
    /\ \E k \in GlobalKeys : k \in DOMAIN call.data /\ k \notin DOMAIN call.hash
    /\ \E k \in GlobalKeys : k \in DOMAIN call.hash

\* C8 as stated: isExcluded is true exactly for a basename that starts with a
\* (possibly empty) run of digits and dots followed by "__".
C8_HiddenIffLeadingMarker ==
    call.fn = "isExcluded" =>
        (ret.value <=>
            OccursAt(call.name, <<"_", "_">>, RunLen(call.name, DigitsAndDot) + 1))

\* the ids under which the material files of the current tree are registered
CurrentIds == {MaterialId(f) : f \in tree.materials}

\* C3 as stated: when a run has returned, the namespaced-data map and the
\* registered fragments hold exactly the entries of the material files of
\* that run (and the layout include), and nothing of an earlier run.
C3_RegistryRebuiltEachRun ==
    pc = "done" =>
        /\ DOMAIN assembly.materialData = {DotsToDashes(id) : id \in CurrentIds}
        /\ DOMAIN partials = CurrentIds \cup {getName(IncludeFile.path, FALSE)}

\* C4 as stated: of two consecutive runs that returned on the same source
\* tree, the second writes to every output file what the first wrote to it.
C4_SecondRunWritesTheSame ==
    \A i \in 1..(Len(history) - 1) :
        (/\ history[i].outcome = "done"
         /\ history[i + 1].outcome = "done"
         /\ history[i + 1].tree = history[i].tree)
            => \A q \in DOMAIN history[i + 1].written :
                  /\ q \in DOMAIN history[i].written
                  /\ history[i + 1].written[q] = history[i].written[q]

\* the material files exactly one directory level below the materials root
OneLevelFiles ==
    {f \in tree.materials : Len(f.path) = Len(MaterialsRoot) + 2}

\* C5 as stated: no pass of parseMaterials classifies a file one directory
\* level below the materials root as sub-collection.
C5_OneLevelNeverSubCollection ==
    pc \in {"stub", "populate", "bundle"} =>
        \A f \in OneLevelFiles : ~StubIsSubCollection(f) /\ ~IsSubCollection(f)

\* C9 as stated: the bundle flag of the item node of a material is true
\* exactly when the bundle field of its front matter is the boolean true.
C9_BundleIffBooleanTrue ==
    pc = "bundle" =>
        \A f \in tree.materials :
            (/\ ~BundleLookupThrows(assembly.materials, f)
             /\ MaterialId(f) \in DOMAIN BundleItems(assembly.materials, f))
                => (BundleItems(assembly.materials, f)[MaterialId(f)].bundle
                        <=> Get(f.data, PropBundle) = Value("boolean", "true"))

\* the bundling pass is at a material that is flagged for bundling and whose
\* fragment renders
AtBundledMaterial ==
    /\ pc = "bundle"
    /\ ~BundleLookupThrows(assembly.materials, files[idx])
    /\ IsBundled(assembly.materials, files[idx])
    /\ BundleRender(files[idx],
                    BundleItems(assembly.materials, files[idx])[MaterialId(files[idx])]).ok

\* C10: the callback of the bundling pass for a bundled material writes the
\* rendered file whichever of the six assets exist, and goes on with the
\* next material or the next stage: no missing asset takes the run to the
\* error handler.
C10_BundleWrittenWhateverAssets ==
    [][AtBundledMaterial =>
          LET file == files[idx]
              node == BundleItems(assembly.materials, file)[MaterialId(file)]
          IN  /\ BundleFilePath(file, node) \in DOMAIN written'
              /\ written'[BundleFilePath(file, node)] = BundleRender(file, node).out
              /\ pc' \in {"bundle", "parseViews"}
              /\ pc' = "bundle" => idx' = idx + 1]_vars

\* C10 witness: the bundling pass has ended for two bundled materials while
\* only toolkit.css of the six assets exists; both rendered files and the
\* two copies of toolkit.css were written, and no other asset
C10_Witness ==
    /\ pc = "parseViews"
    /\ assets = {"toolkit.css"}
    /\ tree.materials = {FlatFile, RootNamedFile}
    /\ \A f \in tree.materials :
          /\ BundleFilePath(f, BundleItems(assembly.materials, f)[MaterialId(f)])
                \in DOMAIN written
          /\ AssetCopyPath(f, "toolkit.css") \in DOMAIN written
          /\ AssetCopyPath(f, "item.css") \notin DOMAIN written
    /\ Cardinality(DOMAIN written) = 4

\* the file name of a bundle: the filtered name of the material file with
\* the extension of data.extension, or html
BundleFileName(file, node) ==
    ReplaceExtension(filterName(Basename(file.path), FALSE), BundleExtension(node))

\* the material files of the run that are flagged for bundling
BundledNow ==
    {f \in tree.materials :
        /\ ~BundleLookupThrows(assembly.materials, f)
        /\ IsBundled(assembly.materials, f)}

\* C11 as stated: when the bundling pass of a run has ended, the rendered
\* file of every bundled material is at <dest>/bundles/<baseName>/<file
\* name>, in the directory that the assets are copied into.
C11_BundleInsideDest ==
    pc \in {"parseViews", "parseDocs", "assemble", "cleanup", "done"} =>
        \A f \in BundledNow :
            LET node == BundleItems(assembly.materials, f)[MaterialId(f)]
            IN  (BundleAssetDir(f) \o <<"/">> \o BundleFileName(f, node))
                    \in DOMAIN written

C13_FragmentIdsUnique ==
    pc \in {"bundle", "parseViews", "parseDocs", "assemble", "cleanup", "done"} =>
        /\ \A f, g \in tree.materials :
              f # g => /\ MaterialId(f) # MaterialId(g)
                       /\ DotsToDashes(MaterialId(f)) # DotsToDashes(MaterialId(g))
        /\ \A f \in tree.materials :
              /\ partials[MaterialId(f)] = MaterialPartial(MaterialId(f), f.data, f.content)
              /\ assembly.materialData[DotsToDashes(MaterialId(f))] = Omit(f.data, PropNotes)

\* the first run of the process has failed and no other run has begun
FirstRunFailed ==
    /\ Len(history) = 1
    /\ pc \in {"failed", "exited"}

Registered(f) ==
    /\ ~BundleLookupThrows(assembly.materials, f)
    /\ MaterialId(f) \in DOMAIN BundleItems(assembly.materials, f)
    /\ MaterialId(f) \in DOMAIN partials
    /\ DotsToDashes(MaterialId(f)) \in DOMAIN assembly.materialData
    /\ \E g \in tree.materials :
          /\ MaterialId(g) = MaterialId(f)
          /\ partials[MaterialId(f)] = MaterialPartial(MaterialId(f), g.data, g.content)
          /\ assembly.materialData[DotsToDashes(MaterialId(f))] = Omit(g.data, PropNotes)

\* C15: a run writes nothing before its bundling pass, and while the
\* bundling pass runs every material file of the run is registered and so
\* is the layout include.
C15_BundlingAfterRegistration ==
    /\ pc \in {"registerHelpers", "parseLayouts", "parseLayoutIncludes", "parseData",
                "parseMaterials", "stub", "populate"} => written = EmptyObject
    /\ pc = "bundle" =>
          /\ \A f \in tree.materials : Registered(f)
          /\ getName(IncludeFile.path, FALSE) \in DOMAIN partials

\* C15 witness: the bundle of c/b/q.html, the first file of the run, was
\* written with the text of the fragment p that it includes, which was
\* registered from d/p.html, the last file of the run
C15_Witness ==
    /\ pc = "parseViews"
    /\ Len(history) = 0
    /\ files = <<SubFile, ClashFile>>
    /\ LET node == BundleItems(assembly.materials, SubFile)[MaterialId(SubFile)]
       IN  /\ BundleFilePath(SubFile, node) \in DOMAIN written
           /\ \E i \in 1..Len(written[BundleFilePath(SubFile, node)]) :
                 written[BundleFilePath(SubFile, node)][i] = ClashFile.content[1]

\* C16 as stated: the stub pass and the later passes classify every material
\* file alike, as sub-collection exactly when the filtered name of its
\* grandparent directory is among the filtered directory names, and the
\* populate pass finds the collection node it inserts into.
C16_PassesClassifyAlike ==
    pc \in {"stub", "populate", "bundle"} =>
        /\ \A f \in tree.materials :
              /\ StubIsSubCollection(f) <=> parentOf(f) \in dirs
              /\ StubIsSubCollection(f) <=> IsSubCollection(f)
        /\ pc = "populate" => ~PopulateThrows(assembly.materials, files[idx])

\* the names, as they are on disk, of the directories below the materials
\* root whose filtered name is k
RawDirs(k) ==
    UNION { {f.path[j] : j \in {i \in (Len(MaterialsRoot) + 1)..(Len(f.path) - 1) :
                                    filterName(f.path[i], FALSE) = k}} :
            f \in tree.materials }

\* C17 as stated: once the stub pass has ended, every top-level collection
\* node has the display name of its key and the exclusion flag of the
\* directory that the node stands for.
C17_StubNodeOfItsOwnDirectory ==
    pc \in {"populate", "bundle"} =>
        \A k \in DOMAIN assembly.materials :
            /\ assembly.materials[k].name = toTitleCase(k)
            /\ \E d \in RawDirs(k) : assembly.materials[k].exclude = isExcluded(<<d>>)

====
